---- MODULE Spec2Model ----
(***************************************************************************)
(* Model of the postal-code -> temperature service (service-orchestration *)
(* and its helpers).  Strings are sequences of one-character strings.     *)
(* Temperatures are fixed-point integers counting 1/100 degree; provider  *)
(* readings carry one decimal place, so every value below is exact.       *)
(***************************************************************************)
EXTENDS Integers, Sequences, FiniteSets, TLC

VARIABLES
    val,        \* validator run: [pc, cep, matched]
    conv,       \* converter run: [pc, celsius, temps]
    gval,       \* run of the gateway's validateCEP: [pc, cep, accepted]
    variant,    \* which build of service-orchestration runs: "traced" | "plain"
    recording,  \* whether the Orchestrator's tracer records (a provider is registered)
    proc,       \* the gateway process: [pc, inits, shutdowns, exit]
    conns,      \* requests the gateway process is serving: id -> state
    apiKey,     \* environment variable APIKeyWeather of the process
    ctx,        \* r.Context() of the request: [cancelled, at]
    hdr,        \* r.Header of the request to the Orchestrator: [traceparent]
    pc,         \* position of TemperatureHandler for the request
    cep,        \* r.URL.Query().Get("cep")
    geoReply,   \* what the directory provider answered to the geocode call
    geoRes,     \* (city, err) returned by GetCityFromCEP
    wxReply,    \* what the weather provider answered
    wxRes,      \* (tempC, err) returned by GetTemperature
    calls,      \* outbound requests dispatched: [geo, wx]
    resp,       \* the http.ResponseWriter: [headers, status, body]
    spans,      \* spans started by the handler: name -> [state, status, ends, trace]
    greq,       \* the client's request to the gateway: [method, path, body]
    gpc,        \* position of the gateway for that request
    svcUrl,     \* environment variable SERVICE_B_URL of the gateway
    fwdCep,     \* cleanCEP put into the URL of the forwarded request
    gcalls,     \* requests the gateway dispatched to the Orchestrator
    bReply,     \* what client.Do and io.ReadAll returned to the gateway
    gresp,      \* the gateway's http.ResponseWriter
    gspans,     \* spans started by handleCEPRequest
    reqs        \* concurrent requests to the Orchestrator: id -> state of its handler

gatewayVars == <<greq, gpc, svcUrl, fwdCep, gcalls, bReply, gresp, gspans>>

vars == <<val, conv, gval, variant, recording, proc, conns, apiKey, ctx, hdr, pc, cep, geoReply, geoRes, wxReply,
          wxRes, calls, resp, spans, gatewayVars, reqs>>

(***************************************************************************)
(* Bounds of the model                                                     *)
(***************************************************************************)
MaxCepLen == 9          \* longest candidate postal code tried
MaxCelsius == 1000      \* converter inputs range over -MaxCelsius..MaxCelsius degrees
MaxRawLen == 10         \* longest raw cep handed to the gateway's validateCEP

(***************************************************************************)
(* Strings                                                                 *)
(***************************************************************************)
AsciiDigit == {"0", "1", "2", "3", "4", "5", "6", "7", "8", "9"}

\* the digits candidate postal codes are built from
DigitSample == {"0", "9"}

\* characters that are not ASCII digits: separators, whitespace, newline,
\* a letter, punctuation and a full-width (non-ASCII) digit
NonDigit == {"-", " ", "\n", "a", ".", "FULLWIDTH-0"}

\* ASCII control bytes among the characters used
CTLByte == {"\n"}

\* a candidate postal code: the digits of base, with d at position p when
\* p is a position of base (p = 0 leaves the digits alone)
Candidate(base, p, d) == [i \in DOMAIN base |-> IF i = p THEN d ELSE base[i]]

(***************************************************************************)
(* utils.IsValidCEP: regexp.MatchString(`^\d{8}$`, cep)                    *)
(***************************************************************************)
CepDigits == 8

\* mutant: \d taken as the Unicode class of decimal digits
ClassDUnicode(c) == c \in AsciiDigit \cup {"FULLWIDTH-0"}

\* \d of Go's regexp (RE2 syntax) is the ASCII class [0-9]
ClassD(c) == c \in AsciiDigit

\* `$` without the m flag matches at the end of the text only
AtEndOfText(s, i) == i = Len(s) + 1

\* match of \d{k}$ starting at position i of s
RECURSIVE MatchDigitsThenEnd(_, _, _)
MatchDigitsThenEnd(s, i, k) ==
    IF k = 0 THEN AtEndOfText(s, i)
    ELSE /\ i <= Len(s)
         /\ ClassD(s[i])
         /\ MatchDigitsThenEnd(s, i + 1, k - 1)

\* `^` anchors the match at position 1
IsValidCEP(s) == MatchDigitsThenEnd(s, 1, CepDigits)

(***************************************************************************)
(* service-input: validateCEP                                              *)
(***************************************************************************)
\* strings.ReplaceAll(s, ch, "") for a one-character ch
RECURSIVE ReplaceAll(_, _)
ReplaceAll(s, ch) ==
    IF s = <<>> THEN <<>>
    ELSE IF Head(s) = ch THEN ReplaceAll(Tail(s), ch)
    ELSE <<Head(s)>> \o ReplaceAll(Tail(s), ch)

\* cleanCEP: the raw cep without hyphens and spaces
CleanCEP(raw) == ReplaceAll(ReplaceAll(raw, "-"), " ")

\* mutant: the raw cep is matched as it came, formatting included
validateCEPRaw(raw) == MatchDigitsThenEnd(raw, 1, CepDigits)

\* mutant: only the length of the cleaned cep is checked
validateCEPLengthOnly(raw) == Len(CleanCEP(raw)) = CepDigits

\* regexp.MatchString(`^\d{8}$`, cleanCEP)
validateCEP(raw) == MatchDigitsThenEnd(CleanCEP(raw), 1, CepDigits)

\* characters put among the zeros of a raw cep: the two formatting
\* characters, a letter and another digit
RawDefects == {"-", " ", "a", "9"}

IdleGatewayValidator == [pc |-> "off", cep |-> <<>>, accepted |-> FALSE]

(***************************************************************************)
(* utils.ConvertTemperatures, in 1/100 degree                              *)
(***************************************************************************)
FahrenheitOffset == 32
KelvinOffset == 273

\* celsius*1.8 + 32
Fahrenheit(celsius) == (celsius * 18) \div 10 + FahrenheitOffset * 100

\* mutant: the physical offset 273.15
KelvinPrecise(celsius) == celsius + KelvinOffset * 100 + 15

\* celsius + 273
Kelvin(celsius) == celsius + KelvinOffset * 100

ConvertTemperatures(celsius) ==
    [City |-> "", TempC |-> celsius, TempF |-> Fahrenheit(celsius),
     TempK |-> Kelvin(celsius)]

\* readings with one decimal place, in 1/100 degree
CelsiusInputs == { 10 * t : t \in (0 - 10 * MaxCelsius)..(10 * MaxCelsius) }

(***************************************************************************)
(* JSON values of provider replies                                         *)
(***************************************************************************)
JAbsent == [t |-> "absent"]
JNull == [t |-> "null"]
JStr(s) == [t |-> "string", s |-> s]
JBool(b) == [t |-> "bool", b |-> b]
JNum(n) == [t |-> "number", n |-> n]

OkStatus == 200

NoErr == [kind |-> "nil", msg |-> ""]
Err(kind, msg) == [kind |-> kind, msg |-> msg]

\* the reply of a call that failed in transport (no response)
TransportFailure == [transport |-> "error", status |-> 0, body |-> [kind |-> "none"]]
Response(status, body) == [transport |-> "ok", status |-> status, body |-> body]

\* http.NewRequest / http.Get reject a URL that holds an ASCII control byte
UrlRejected(part) == \E i \in 1..Len(part) : part[i] \in CTLByte

(***************************************************************************)
(* Geocode client: utils.GetCityFromCEP                                    *)
(***************************************************************************)
\* json.Decoder.Decode into a string field
DecodeString(v) ==
    CASE v.t = "absent" -> [ok |-> TRUE, s |-> ""]
      [] v.t = "null"   -> [ok |-> TRUE, s |-> ""]
      [] v.t = "string" -> [ok |-> TRUE, s |-> v.s]
      [] OTHER          -> [ok |-> FALSE, s |-> ""]

\* json.Decoder.Decode into a bool field
DecodeBool(v) ==
    CASE v.t = "absent" -> [ok |-> TRUE, b |-> FALSE]
      [] v.t = "null"   -> [ok |-> TRUE, b |-> FALSE]
      [] v.t = "bool"   -> [ok |-> TRUE, b |-> v.b]
      [] OTHER          -> [ok |-> FALSE, b |-> FALSE]

\* json.NewDecoder(resp.Body).Decode(&viaCEP), viaCEP a models.ViaCEP
DecodeViaCEP(body) ==
    CASE body.kind = "object" ->
            LET l == DecodeString(body.localidade)
                e == DecodeBool(body.erro)
            IN  [ok |-> l.ok /\ e.ok, Localidade |-> l.s, Erro |-> e.b]
      [] body.kind = "null" -> [ok |-> TRUE, Localidade |-> "", Erro |-> FALSE]
      [] OTHER -> [ok |-> FALSE, Localidade |-> "", Erro |-> FALSE]

\* GetCityFromCEP(ctx, cep, span) of the traced build, up to the dispatch of
\* the request: NewRequestWithContext
GeocodeRequestErr(c) ==
    IF UrlRejected(c) THEN Err("request", "invalid control character in URL")
    ELSE NoErr

\* mutant: only the erro flag is looked at, an empty localidade passes
GetCityFromCEPTracedErroOnly(reply) ==
    IF reply.transport # "ok"
    THEN [city |-> "", err |-> Err("transport", "HTTP request failed")]
    ELSE IF reply.status # OkStatus
    THEN [city |-> "",
          err |-> Err("status", "ViaCEP API returned status: " \o ToString(reply.status))]
    ELSE LET viaCEP == DecodeViaCEP(reply.body) IN
         IF ~viaCEP.ok
         THEN [city |-> "", err |-> Err("decode", "failed to decode JSON response")]
         ELSE IF viaCEP.Erro
         THEN [city |-> "", err |-> Err("notfound", "can not find zipcode")]
         ELSE [city |-> viaCEP.Localidade, err |-> NoErr]

\* GetCityFromCEP(ctx, cep, span) of the traced build, from the provider's reply
GetCityFromCEPTraced(reply) ==
    IF reply.transport # "ok"
    THEN [city |-> "", err |-> Err("transport", "HTTP request failed")]
    ELSE IF reply.status # OkStatus
    THEN [city |-> "",
          err |-> Err("status", "ViaCEP API returned status: " \o ToString(reply.status))]
    ELSE LET viaCEP == DecodeViaCEP(reply.body) IN
         IF ~viaCEP.ok
         THEN [city |-> "", err |-> Err("decode", "failed to decode JSON response")]
         ELSE IF viaCEP.Erro \/ viaCEP.Localidade = ""
         THEN [city |-> "", err |-> Err("notfound", "can not find zipcode")]
         ELSE [city |-> viaCEP.Localidade, err |-> NoErr]

\* GetCityFromCEP(cep) of the build without tracing, from the provider's reply
GetCityFromCEPPlain(reply) ==
    IF reply.transport # "ok"
    THEN [city |-> "", err |-> Err("transport", "HTTP request failed")]
    ELSE LET viaCEP == DecodeViaCEP(reply.body) IN
         IF ~viaCEP.ok
         THEN [city |-> "", err |-> Err("decode", "failed to decode JSON response")]
         ELSE IF viaCEP.Erro \/ viaCEP.Localidade = ""
         THEN [city |-> "", err |-> Err("notfound", "zipcode not found")]
         ELSE [city |-> viaCEP.Localidade, err |-> NoErr]

\* the GetCityFromCEP the build links
GetCityFromCEP(v, reply) ==
    IF v = "traced" THEN GetCityFromCEPTraced(reply) ELSE GetCityFromCEPPlain(reply)

(***************************************************************************)
(* Weather client: utils.GetTemperature                                    *)
(***************************************************************************)
\* mutant: a float64 field missing from the object is a decode error
DecodeFloatRequired(v) ==
    CASE v.t = "number" -> [ok |-> TRUE, n |-> v.n]
      [] OTHER          -> [ok |-> FALSE, n |-> 0]

\* json.Decoder.Decode into a float64 field
DecodeFloat(v) ==
    CASE v.t = "absent" -> [ok |-> TRUE, n |-> 0]
      [] v.t = "null"   -> [ok |-> TRUE, n |-> 0]
      [] v.t = "number" -> [ok |-> TRUE, n |-> v.n]
      [] OTHER          -> [ok |-> FALSE, n |-> 0]

\* json.NewDecoder(resp.Body).Decode(&weather), weather a models.WeatherAPI
DecodeWeatherAPI(body) ==
    CASE body.kind = "object" ->
            IF body.current.t \in {"absent", "null"}
            THEN [ok |-> TRUE, TempC |-> 0]
            ELSE IF body.current.t = "object"
            THEN LET c == DecodeFloat(body.current.temp_c)
                 IN  [ok |-> c.ok, TempC |-> c.n]
            ELSE [ok |-> FALSE, TempC |-> 0]
      [] body.kind = "null" -> [ok |-> TRUE, TempC |-> 0]
      [] OTHER -> [ok |-> FALSE, TempC |-> 0]

\* mutant: the credential is not checked before the request is built
WeatherRequestErrNoKeyCheck(key) ==
    IF UrlRejected(key) THEN Err("request", "failed to create request")
    ELSE NoErr

\* GetTemperature up to the dispatch of the request: the credential check,
\* then the construction of the request
WeatherRequestErr(key) ==
    IF key = <<>> THEN Err("config", "API key is not set")
    ELSE IF UrlRejected(key) THEN Err("request", "failed to create request")
    ELSE NoErr

\* mutant: the status code of the reply is not looked at
GetTemperatureReplyAnyStatus(reply) ==
    IF reply.transport # "ok"
    THEN [temp |-> 0, err |-> Err("transport", "failed to get temperature")]
    ELSE LET weather == DecodeWeatherAPI(reply.body) IN
         IF ~weather.ok
         THEN [temp |-> 0, err |-> Err("decode", "failed to decode response")]
         ELSE [temp |-> weather.TempC, err |-> NoErr]

\* GetTemperature from the provider's reply
GetTemperatureReply(reply) ==
    IF reply.transport # "ok"
    THEN [temp |-> 0, err |-> Err("transport", "failed to get temperature")]
    ELSE IF reply.status # OkStatus
    THEN [temp |-> 0,
          err |-> Err("status", "weather API returned status: " \o ToString(reply.status))]
    ELSE LET weather == DecodeWeatherAPI(reply.body) IN
         IF ~weather.ok
         THEN [temp |-> 0, err |-> Err("decode", "failed to decode response")]
         ELSE [temp |-> weather.TempC, err |-> NoErr]

\* GetTemperature(city): the value and error it returns, given the reply the
\* provider would send
GetTemperature(key, reply) ==
    IF WeatherRequestErr(key) # NoErr
    THEN [temp |-> 0, err |-> WeatherRequestErr(key)]
    ELSE GetTemperatureReply(reply)

(***************************************************************************)
(* What the providers and the client may send                              *)
(***************************************************************************)
CityNames == {"Sao Paulo", "Rio de Janeiro"}

LocalidadeValues == {JAbsent, JNull, JNum(1)} \cup {JStr(s) : s \in CityNames \cup {""}}
ErroValues == {JAbsent, JBool(TRUE), JBool(FALSE), JStr("true")}

GeoBodies ==
    {[kind |-> "empty"], [kind |-> "malformed"], [kind |-> "null"]}
    \cup {[kind |-> "object", localidade |-> l, erro |-> e] :
            l \in LocalidadeValues, e \in ErroValues}

GeoStatuses == {200, 400, 404, 500}

GeoReplies == {TransportFailure} \cup {Response(st, b) : st \in GeoStatuses, b \in GeoBodies}

\* readings in 1/100 degree: 0, 25.5, -40, 100
TempSamples == {0, 2550, 0 - 4000, 10000}

TempCValues == {JAbsent, JNull, JStr("hot")} \cup {JNum(n) : n \in TempSamples}
CurrentValues == {JAbsent, JStr("x")} \cup {[t |-> "object", temp_c |-> v] : v \in TempCValues}

WxBodies ==
    {[kind |-> "empty"], [kind |-> "malformed"], [kind |-> "null"]}
    \cup {[kind |-> "object", current |-> c] : c \in CurrentValues}

WxStatuses == {200, 401, 403, 404, 500}

WxReplies == {TransportFailure} \cup {Response(st, b) : st \in WxStatuses, b \in WxBodies}

\* values of APIKeyWeather: unset or empty, a usable key, a key holding a
\* control byte
ApiKeys == {<<>>, <<"k", "1">>, <<"k", "\n">>}

\* cep query values: 01001000, 99999999, 1234567 (7 digits), 123456789,
\* 12345-678, 1234567a, the empty string, 01001000 followed by a newline
RequestCeps ==
    { <<"0", "1", "0", "0", "1", "0", "0", "0">>,
      <<"9", "9", "9", "9", "9", "9", "9", "9">>,
      <<"1", "2", "3", "4", "5", "6", "7">>,
      <<"1", "2", "3", "4", "5", "6", "7", "8", "9">>,
      <<"1", "2", "3", "4", "5", "-", "6", "7", "8">>,
      <<"1", "2", "3", "4", "5", "6", "7", "a">>,
      <<>>,
      <<"0", "1", "0", "0", "1", "0", "0", "0", "\n">> }

(***************************************************************************)
(* http.ResponseWriter                                                     *)
(***************************************************************************)
StatusUnprocessableEntity == 422
StatusInternalServerError == 500

\* mutant: a geocode failure answered as a server error
StatusNotFoundAsServerError == StatusInternalServerError

StatusNotFound == 404

NoResponse == [status |-> 0, writeHeaders |-> 0, contentType |-> "", body |-> <<>>]

\* w.Header().Set("Content-Type", ct): headers are frozen once the status is out
SetContentType(w, ct) == IF w.status = 0 THEN [w EXCEPT !.contentType = ct] ELSE w

\* w.WriteHeader(code): the first call decides the status
WriteHeader(w, code) ==
    [w EXCEPT !.status = IF @ = 0 THEN code ELSE @, !.writeHeaders = @ + 1]

\* w.Write(chunk): an implicit 200 when no status was written
Write(w, chunk) ==
    [w EXCEPT !.status = IF @ = 0 THEN OkStatus ELSE @, !.body = Append(@, chunk)]

TextBody(text) == [kind |-> "text", text |-> text]

\* json.NewEncoder(w).Encode(temps) with the field tags of models.Temperature
EncodeTemperature(temps) ==
    [kind |-> "json", city |-> temps.City, temp_C |-> temps.TempC,
     temp_F |-> temps.TempF, temp_K |-> temps.TempK]

\* mutant: the underlying error is appended to the fixed text
WriteErrorWithDetail(w, code, text) ==
    Write(Write(WriteHeader(w, code), TextBody(text)), TextBody("error detail"))

\* w.WriteHeader(code); w.Write([]byte(text))
WriteError(w, code, text) == Write(WriteHeader(w, code), TextBody(text))

\* the three lines that answer 200
WriteReport(w, temps) ==
    Write(WriteHeader(SetContentType(w, "application/json"), OkStatus),
          EncodeTemperature(temps))

(***************************************************************************)
(* Spans                                                                   *)
(***************************************************************************)
MainSpan == "temperature-handler"
CitySpan == "get-city-from-cep"
TempSpan == "get-temperature-from-weather-api"
ConvertSpan == "convert-temperatures"
SpanNames == {MainSpan, CitySpan, TempSpan, ConvertSpan}

NoSpan == [state |-> "none", status |-> "Unset", ends |-> 0, trace |-> ""]

\* the W3C traceparent header: absent, or the trace id and span id of the sender
NoTraceParent == [trace |-> "", span |-> ""]
NoHeaders == [traceparent |-> NoTraceParent]

\* the propagator registered by the Orchestrator's process at startup
OrchestratorPropagator == "tracecontext"

\* otel.GetTextMapPropagator().Extract(r.Context(), HeaderCarrier(r.Header))
Extract(h) ==
    IF OrchestratorPropagator = "tracecontext" THEN h.traceparent ELSE NoTraceParent

\* mutant: the handler span is started from r.Context(), headers not read
HandlerTraceFromRequestContext == "trace minted by the Orchestrator"

\* the trace of the spans the handler starts: that of the remote parent in
\* the extracted context, a new one when there is none
HandlerTrace ==
    IF Extract(hdr).trace # "" THEN Extract(hdr).trace
    ELSE "trace minted by the Orchestrator"

\* tracer.Start(ctx, name) with ctx in trace t
StartSpanIn(sp, n, t) ==
    [sp EXCEPT ![n] = [state |-> "open", status |-> "Unset", ends |-> 0, trace |-> t]]

\* tracer.Start(ctx, name) in TemperatureHandler
StartSpan(sp, n) == StartSpanIn(sp, n, HandlerTrace)

\* span.SetStatus(code, _): ignored once the span ended or its status is Ok
SetStatus(sp, n, code) ==
    IF sp[n].state # "open" \/ sp[n].status = "Ok" THEN sp
    ELSE [sp EXCEPT ![n].status = code]

\* span.End()
EndSpan(sp, n) == [sp EXCEPT ![n].state = "ended", ![n].ends = @ + 1]

\* the build without tracing starts no span; with the no-op tracer that otel
\* hands out while no provider is registered, span operations do nothing
Traced(sp) == IF variant = "traced" /\ recording THEN sp ELSE spans

(***************************************************************************)
(* handler.TemperatureHandler                                              *)
(***************************************************************************)
NoReply == [transport |-> "none", status |-> 0, body |-> [kind |-> "none"]]

\* the gateway process and its connections, when it is not part of the run
Conns == {"c1", "c2"}
NoProcess == [pc |-> "off", inits |-> 0, shutdowns |-> 0, exit |-> "none"]
NoConns == [c \in Conns |-> [pc |-> "off", body |-> [kind |-> "none"], resp |-> NoResponse]]
NoCity == [city |-> "", err |-> NoErr]
NoTemp == [temp |-> 0, err |-> NoErr]
NoTemps == [City |-> "", TempC |-> 0, TempF |-> 0, TempK |-> 0]

IdleValidator == [pc |-> "off", cep |-> <<>>, matched |-> FALSE]
IdleConverter == [pc |-> "off", celsius |-> 0, temps |-> NoTemps]

\* mutant: the city is not copied into the report
AttachCityDropped(temps, city) == temps

\* temps.City = city
AttachCity(temps, city) == [temps EXCEPT !.City = city]

\* mutant: the handler span is not marked when a stage fails
FailStageSpanOnly(sp, n) ==
    EndSpan(EndSpan(SetStatus(SetStatus(sp, n, "Error"), n, "Error"), n), MainSpan)

\* a stage failed: its span is marked and ended, then the handler span
FailStage(sp, n) ==
    EndSpan(SetStatus(EndSpan(SetStatus(SetStatus(sp, n, "Error"), n, "Error"), n),
                      MainSpan, "Error"),
            MainSpan)

\* mutant: the status code answered is read back from the handler span
RejectBySpanStatus(code, text, sp) ==
    /\ resp' = WriteError(resp,
                          IF Traced(sp)[MainSpan].status = "Error" THEN code
                          ELSE StatusInternalServerError,
                          text)
    /\ spans' = Traced(sp)
    /\ pc' = "done"

\* the handler answers an error and returns
Reject(code, text, sp) ==
    /\ resp' = WriteError(resp, code, text)
    /\ spans' = Traced(sp)
    /\ pc' = "done"

\* the request's context before the client went away or a deadline elapsed
LiveContext == [cancelled |-> FALSE, at |-> "none"]

\* what a call made with http.NewRequestWithContext(ctx, ...) can return once
\* ctx is cancelled: client.Do fails, or the body is cut short while decoding
Aborted(replies) ==
    {TransportFailure} \cup {r \in replies : r.transport = "ok" /\ r.body.kind = "malformed"}

\* what the geocode call can return: the traced build passes ctx to the
\* request, the untraced build calls http.Get(url) with no context
GeocodeOutcomes ==
    IF variant = "traced" /\ ctx.cancelled THEN Aborted(GeoReplies) ELSE GeoReplies

\* what the weather call can return, in the same way
WeatherOutcomes ==
    IF variant = "traced" /\ ctx.cancelled THEN Aborted(WxReplies) ELSE WxReplies

\* the client disconnects or the request's deadline elapses while an outbound
\* call is in flight
CancelRequest ==
    /\ pc \in {"geocode", "weather"}
    /\ ~ctx.cancelled
    /\ ctx' = [cancelled |-> TRUE, at |-> pc]
    /\ UNCHANGED <<reqs, gatewayVars, hdr, val, conv, gval, variant, recording, proc, conns, apiKey, pc, cep,
                   geoReply, geoRes, wxReply, wxRes, calls, resp, spans>>

\* mutant: the geocode request is dispatched before the postal code is checked
HandlerStartEager ==
    /\ pc = "idle"
    /\ \E c \in RequestCeps :
        LET s0 == StartSpan(spans, MainSpan)
            s1 == StartSpan(s0, CitySpan)
        IN
        /\ cep' = c
        /\ calls' = [calls EXCEPT !.geo = @ + 1]
        /\ IF ~IsValidCEP(c)
           THEN Reject(StatusUnprocessableEntity, "invalid zipcode",
                       EndSpan(SetStatus(s0, MainSpan, "Error"), MainSpan))
           ELSE /\ spans' = Traced(s1)
                /\ pc' = "geocode"
                /\ UNCHANGED resp
    /\ UNCHANGED <<reqs, gatewayVars, hdr, val, conv, gval, variant, recording, proc, conns, apiKey, ctx, geoReply, geoRes, wxReply, wxRes>>

\* mutant: the credential is looked at on entry, before the postal code
HandlerStartOnKeyFirst(c) ==
    LET s0 == StartSpan(spans, MainSpan)
        s1 == StartSpan(s0, CitySpan)
    IN
    /\ cep' = c
    /\ IF apiKey = <<>>
       THEN /\ Reject(StatusInternalServerError, "error getting temperature",
                      EndSpan(SetStatus(s0, MainSpan, "Error"), MainSpan))
            /\ UNCHANGED <<geoRes, calls>>
       ELSE IF ~IsValidCEP(c)
       THEN /\ Reject(StatusUnprocessableEntity, "invalid zipcode",
                      EndSpan(SetStatus(s0, MainSpan, "Error"), MainSpan))
            /\ UNCHANGED <<geoRes, calls>>
       ELSE IF GeocodeRequestErr(c) # NoErr
       THEN /\ geoRes' = [city |-> "", err |-> GeocodeRequestErr(c)]
            /\ Reject(StatusNotFound, "can not find zipcode", FailStage(s1, CitySpan))
            /\ UNCHANGED calls
       ELSE /\ calls' = [calls EXCEPT !.geo = @ + 1]
            /\ spans' = Traced(s1)
            /\ pc' = "geocode"
            /\ UNCHANGED <<geoRes, resp>>
    /\ UNCHANGED <<reqs, gatewayVars, hdr, val, conv, gval, variant, recording, proc, conns, apiKey, ctx, geoReply,
                   wxReply, wxRes>>

\* from the entry of the handler, called with ?cep=c, to the dispatch of the
\* geocode request
HandlerStartOn(c) ==
    LET s0 == StartSpan(spans, MainSpan)
        s1 == StartSpan(s0, CitySpan)
    IN
    /\ cep' = c
    /\ IF ~IsValidCEP(c)
       THEN /\ Reject(StatusUnprocessableEntity, "invalid zipcode",
                      EndSpan(SetStatus(s0, MainSpan, "Error"), MainSpan))
            /\ UNCHANGED <<geoRes, calls>>
       ELSE IF GeocodeRequestErr(c) # NoErr
       THEN /\ geoRes' = [city |-> "", err |-> GeocodeRequestErr(c)]
            /\ Reject(StatusNotFound, "can not find zipcode", FailStage(s1, CitySpan))
            /\ UNCHANGED calls
       ELSE /\ calls' = [calls EXCEPT !.geo = @ + 1]
            /\ spans' = Traced(s1)
            /\ pc' = "geocode"
            /\ UNCHANGED <<geoRes, resp>>
    /\ UNCHANGED <<reqs, gatewayVars, hdr, val, conv, gval, variant, recording, proc, conns, apiKey, ctx, geoReply,
                   wxReply, wxRes>>

\* a client calls GET /temperature?cep=c
HandlerStart ==
    /\ pc = "idle"
    /\ \E c \in RequestCeps : HandlerStartOn(c)

\* mutant: a failed geocode call is tried once more before giving up
GeocodeReturnRetry ==
    /\ pc = "geocode"
    /\ \E reply \in GeocodeOutcomes :
        LET res == GetCityFromCEP(variant, reply)
            ok1 == EndSpan(SetStatus(SetStatus(spans, CitySpan, "Ok"), CitySpan, "Ok"),
                           CitySpan)
            s2  == StartSpan(ok1, TempSpan)
            pre == WeatherRequestErr(apiKey)
        IN
        /\ geoReply' = reply
        /\ geoRes' = res
        /\ IF res.err # NoErr /\ calls.geo < 2
           THEN /\ calls' = [calls EXCEPT !.geo = @ + 1]
                /\ UNCHANGED <<wxRes, resp, spans, pc>>
           ELSE IF res.err # NoErr
           THEN /\ Reject(StatusNotFound, "can not find zipcode",
                          FailStage(spans, CitySpan))
                /\ UNCHANGED <<wxRes, calls>>
           ELSE IF pre # NoErr
           THEN /\ wxRes' = [temp |-> 0, err |-> pre]
                /\ Reject(StatusInternalServerError, "error getting temperature",
                          FailStage(s2, TempSpan))
                /\ UNCHANGED calls
           ELSE /\ calls' = [calls EXCEPT !.wx = @ + 1]
                /\ spans' = Traced(s2)
                /\ pc' = "weather"
                /\ UNCHANGED <<wxRes, resp>>
    /\ UNCHANGED <<reqs, gatewayVars, hdr, val, conv, gval, variant, recording, proc, conns, apiKey, ctx, cep, wxReply>>

\* the geocode call returns; on success the handler goes on to the dispatch
\* of the weather request
GeocodeReturn ==
    /\ pc = "geocode"
    /\ \E reply \in GeocodeOutcomes :
        LET res == GetCityFromCEP(variant, reply)
            ok1 == EndSpan(SetStatus(SetStatus(spans, CitySpan, "Ok"), CitySpan, "Ok"),
                           CitySpan)
            s2  == StartSpan(ok1, TempSpan)
            pre == WeatherRequestErr(apiKey)
        IN
        /\ geoReply' = reply
        /\ geoRes' = res
        /\ IF res.err # NoErr
           THEN /\ Reject(StatusNotFound, "can not find zipcode",
                          FailStage(spans, CitySpan))
                /\ UNCHANGED <<wxRes, calls>>
           ELSE IF pre # NoErr
           THEN /\ wxRes' = [temp |-> 0, err |-> pre]
                /\ Reject(StatusInternalServerError, "error getting temperature",
                          FailStage(s2, TempSpan))
                /\ UNCHANGED calls
           ELSE /\ calls' = [calls EXCEPT !.wx = @ + 1]
                /\ spans' = Traced(s2)
                /\ pc' = "weather"
                /\ UNCHANGED <<wxRes, resp>>
    /\ UNCHANGED <<reqs, gatewayVars, hdr, val, conv, gval, variant, recording, proc, conns, apiKey, ctx, cep, wxReply>>

\* the weather call returns; the handler converts and answers
WeatherReturn ==
    /\ pc = "weather"
    /\ \E reply \in WeatherOutcomes :
        LET res   == GetTemperature(apiKey, reply)
            temps == AttachCity(ConvertTemperatures(res.temp), geoRes.city)
            ok2   == EndSpan(SetStatus(spans, TempSpan, "Ok"), TempSpan)
            ok3   == EndSpan(SetStatus(StartSpan(ok2, ConvertSpan), ConvertSpan, "Ok"),
                             ConvertSpan)
        IN
        /\ wxReply' = reply
        /\ wxRes' = res
        /\ IF res.err # NoErr
           THEN Reject(StatusInternalServerError, "error getting temperature",
                       FailStage(spans, TempSpan))
           ELSE /\ resp' = WriteReport(resp, temps)
                /\ spans' = Traced(EndSpan(SetStatus(ok3, MainSpan, "Ok"), MainSpan))
                /\ pc' = "done"
    /\ UNCHANGED <<reqs, gatewayVars, hdr, val, conv, gval, variant, recording, proc, conns, apiKey, ctx, cep, geoReply, geoRes, calls>>

(***************************************************************************)
(* TemperatureHandler serving several requests at once: net/http runs each *)
(* request's handler on a goroutine of its own                             *)
(***************************************************************************)
Reqs == {"r1", "r2"}

\* the local variables of one invocation of the handler
IdleRequest ==
    [pc |-> "idle", cep |-> <<>>, geoReply |-> NoReply, geoRes |-> NoCity,
     wxReply |-> NoReply, wxRes |-> NoTemp, resp |-> NoResponse]

NoRequests == [r \in Reqs |-> [IdleRequest EXCEPT !.pc = "off"]]

\* 01001000 and 1234567
ConcurrentCeps ==
    { <<"0", "1", "0", "0", "1", "0", "0", "0">>,
      <<"1", "2", "3", "4", "5", "6", "7">> }

ConcurrentGeoReplies ==
    {TransportFailure}
    \cup {Response(200, [kind |-> "object", localidade |-> JStr(c), erro |-> JAbsent]) :
            c \in CityNames}

ConcurrentWxReplies ==
    {Response(500, [kind |-> "empty"])}
    \cup {Response(200, [kind |-> "object",
                         current |-> [t |-> "object", temp_c |-> JNum(n)]]) :
            n \in {2550, 0 - 4000}}

\* mutant: the city is kept in a package-level variable that the handlers of
\* all requests write and read
CityOfShared(r) ==
    LET others == {q \in Reqs \ {r} : reqs[q].geoRes.city # ""} IN
    IF others = {} THEN reqs[r].geoRes.city
    ELSE reqs[CHOOSE q \in others : TRUE].geoRes.city

\* city, a local variable of the invocation serving r
CityOf(r) == reqs[r].geoRes.city

\* the handler of request r, from its entry to the dispatch of the geocode call
Serve(r) ==
    /\ reqs[r].pc = "idle"
    /\ \E c \in ConcurrentCeps :
        reqs' = [reqs EXCEPT ![r] =
            IF ~IsValidCEP(c)
            THEN [@ EXCEPT !.cep = c, !.pc = "done",
                           !.resp = WriteError(@, StatusUnprocessableEntity,
                                               "invalid zipcode")]
            ELSE IF GeocodeRequestErr(c) # NoErr
            THEN [@ EXCEPT !.cep = c, !.pc = "done",
                           !.geoRes = [city |-> "", err |-> GeocodeRequestErr(c)],
                           !.resp = WriteError(@, StatusNotFound, "can not find zipcode")]
            ELSE [@ EXCEPT !.cep = c, !.pc = "geocode"]]
    /\ UNCHANGED <<gatewayVars, hdr, val, conv, gval, variant, recording, proc, conns, apiKey, ctx, pc, cep,
                   geoReply, geoRes, wxReply, wxRes, calls, resp, spans>>

\* the geocode call of request r returns
GeocodeReturnOf(r) ==
    /\ reqs[r].pc = "geocode"
    /\ \E reply \in ConcurrentGeoReplies :
        LET res == GetCityFromCEP(variant, reply)
            pre == WeatherRequestErr(apiKey)
        IN
        reqs' = [reqs EXCEPT ![r] =
            IF res.err # NoErr
            THEN [@ EXCEPT !.geoReply = reply, !.geoRes = res, !.pc = "done",
                           !.resp = WriteError(@, StatusNotFound, "can not find zipcode")]
            ELSE IF pre # NoErr
            THEN [@ EXCEPT !.geoReply = reply, !.geoRes = res, !.pc = "done",
                           !.wxRes = [temp |-> 0, err |-> pre],
                           !.resp = WriteError(@, StatusInternalServerError,
                                               "error getting temperature")]
            ELSE [@ EXCEPT !.geoReply = reply, !.geoRes = res, !.pc = "weather"]]
    /\ UNCHANGED <<gatewayVars, hdr, val, conv, gval, variant, recording, proc, conns, apiKey, ctx, pc, cep,
                   geoReply, geoRes, wxReply, wxRes, calls, resp, spans>>

\* the weather call of request r returns; its handler converts and answers
WeatherReturnOf(r) ==
    /\ reqs[r].pc = "weather"
    /\ \E reply \in ConcurrentWxReplies :
        LET res   == GetTemperature(apiKey, reply)
            temps == AttachCity(ConvertTemperatures(res.temp), CityOf(r))
        IN
        reqs' = [reqs EXCEPT ![r] =
            IF res.err # NoErr
            THEN [@ EXCEPT !.wxReply = reply, !.wxRes = res, !.pc = "done",
                           !.resp = WriteError(@, StatusInternalServerError,
                                               "error getting temperature")]
            ELSE [@ EXCEPT !.wxReply = reply, !.wxRes = res, !.pc = "done",
                           !.resp = WriteReport(@, temps)]]
    /\ UNCHANGED <<gatewayVars, hdr, val, conv, gval, variant, recording, proc, conns, apiKey, ctx, pc, cep,
                   geoReply, geoRes, wxReply, wxRes, calls, resp, spans>>

(***************************************************************************)
(* service-input: the router and handleCEPRequest                          *)
(***************************************************************************)
ValidateSpan == "validate-cep"
CallSpan == "call-service-b"
GatewaySpanNames == {ValidateSpan, CallSpan}

\* r.Context() of a gateway request carries no span: "validate-cep" is the
\* root of a new trace
GatewayTrace == "trace minted by the gateway"

\* the propagator set by initProvider
GatewayPropagator == "tracecontext"

\* otel.GetTextMapPropagator().Inject(ctx, HeaderCarrier(header)), ctx being
\* the context returned by tracer.Start(ctx, "call-service-b")
Inject(sp) ==
    IF GatewayPropagator = "tracecontext" /\ sp[CallSpan].state = "open"
    THEN [traceparent |-> [trace |-> sp[CallSpan].trace, span |-> CallSpan]]
    ELSE NoHeaders

\* the pattern the handler is registered under
RoutePattern == "/temperature"

\* chi: the handler when method and pattern match, 405 when only the pattern
\* matches, 404 otherwise
Route(method, path) ==
    IF path # RoutePattern THEN "not found"
    ELSE IF method # "POST" THEN "method not allowed"
    ELSE "handler"

\* json.NewDecoder(r.Body).Decode(&req), req a CEPRequest
DecodeCEPRequest(body) ==
    CASE body.kind = "object" ->
            [ok |-> DecodeString(body.cep).ok,
             CEP |-> IF body.cep.t = "string" THEN body.cep.s ELSE <<>>]
      [] body.kind = "null" -> [ok |-> TRUE, CEP |-> <<>>]
      [] OTHER -> [ok |-> FALSE, CEP |-> <<>>]

\* json.NewEncoder(w).Encode(ErrorResponse{Message: m})
MessageBody(m) == [kind |-> "json", message |-> m]

WriteMessage(w, code, m) ==
    Write(WriteHeader(SetContentType(w, "application/json"), code), MessageBody(m))

\* mutant: a malformed request is answered 400
RejectZipcodeBadRequest(w) == WriteMessage(w, 400, "invalid zipcode")

\* the answer to a body that does not decode or a cep that fails validateCEP
RejectZipcode(w) == WriteMessage(w, StatusUnprocessableEntity, "invalid zipcode")

\* the answer when the forwarded call cannot be built, fails or cannot be read
InternalServerError(w) ==
    WriteMessage(w, StatusInternalServerError, "internal server error")

\* w.Write(body), body the bytes read from the Orchestrator's response
WriteBytes(w, bytes) ==
    [w EXCEPT !.status = IF @ = 0 THEN OkStatus ELSE @, !.body = @ \o bytes]

\* mutant: the Orchestrator's body is relayed under status 200
PassThroughAsOk(w, status, bytes) ==
    WriteBytes(WriteHeader(SetContentType(w, "application/json"), OkStatus), bytes)

\* the last three lines of handleCEPRequest
PassThrough(w, status, bytes) ==
    WriteBytes(WriteHeader(SetContentType(w, "application/json"), status), bytes)

NoRequest == [method |-> "", path |-> "", body |-> [kind |-> "none"]]
NoBReply == [transport |-> "none", status |-> 0, body |-> <<>>, read |-> "none"]

\* raw ceps sent to the gateway: 01001000, 01001-000, 99999 999, 1234567,
\* 1234567a and the empty string
RawCeps ==
    { <<"0", "1", "0", "0", "1", "0", "0", "0">>,
      <<"0", "1", "0", "0", "1", "-", "0", "0", "0">>,
      <<"9", "9", "9", "9", "9", " ", "9", "9", "9">>,
      <<"1", "2", "3", "4", "5", "6", "7">>,
      <<"1", "2", "3", "4", "5", "6", "7", "a">>,
      <<>> }

GatewayBodies ==
    {[kind |-> "empty"], [kind |-> "malformed"], [kind |-> "null"]}
    \cup {[kind |-> "object", cep |-> v] :
            v \in {JAbsent, JNum(1001000)} \cup {JStr(c) : c \in RawCeps}}

GatewayMethods == {"POST", "GET"}
GatewayPaths == {"/", "/temperature"}

\* values of SERVICE_B_URL: unset, a usable base URL, one holding a control byte
ServiceBUrls == {<<>>, <<"b">>, <<"b", "\n">>}

\* the deferred spanServiceB.End() and span.End() of a return after line 132
EndBoth(sp) == EndSpan(EndSpan(sp, CallSpan), ValidateSpan)

\* a request arrives: the middlewares set the Content-Type, the router
\* dispatches on method and path
ServeHTTP ==
    /\ gpc = "idle"
    /\ \E m \in GatewayMethods, p \in GatewayPaths, b \in GatewayBodies :
        LET w == SetContentType(NoResponse, "application/json") IN
        /\ greq' = [method |-> m, path |-> p, body |-> b]
        /\ CASE Route(m, p) = "handler" ->
                    /\ gpc' = "handler"
                    /\ gresp' = w
             [] Route(m, p) = "not found" ->
                    /\ gpc' = "done"
                    /\ gresp' = Write(WriteHeader(SetContentType(w, "text/plain"),
                                                  StatusNotFound),
                                      TextBody("404 page not found"))
             [] OTHER ->
                    /\ gpc' = "done"
                    /\ gresp' = WriteHeader(w, 405)
    /\ UNCHANGED <<svcUrl, fwdCep, gcalls, bReply, gspans>>
    /\ UNCHANGED <<reqs, hdr, val, conv, gval, variant, recording, proc, conns, apiKey, ctx, pc, cep, geoReply, geoRes,
                   wxReply, wxRes, calls, resp, spans>>

\* handleCEPRequest up to the dispatch of the request to the Orchestrator
HandleCEPRequest ==
    /\ gpc = "handler"
    /\ LET req == DecodeCEPRequest(greq.body)
           s0  == StartSpanIn(gspans, ValidateSpan, GatewayTrace)
           s1  == StartSpanIn(EndSpan(s0, ValidateSpan), CallSpan, s0[ValidateSpan].trace)
       IN
       IF ~req.ok \/ ~validateCEP(req.CEP)
       THEN /\ gresp' = RejectZipcode(gresp)
            /\ gspans' = EndSpan(s0, ValidateSpan)
            /\ gpc' = "done"
            /\ UNCHANGED <<fwdCep, gcalls, hdr>>
       ELSE IF svcUrl = <<>>
       THEN \* log.Fatal: os.Exit(1), deferred calls do not run
            /\ gspans' = s1
            /\ gpc' = "exited"
            /\ UNCHANGED <<gresp, fwdCep, gcalls, hdr>>
       ELSE IF UrlRejected(svcUrl)
       THEN /\ gresp' = InternalServerError(gresp)
            /\ gspans' = EndBoth(s1)
            /\ gpc' = "done"
            /\ UNCHANGED <<fwdCep, gcalls, hdr>>
       ELSE /\ fwdCep' = CleanCEP(req.CEP)
            /\ hdr' = Inject(s1)
            /\ gcalls' = gcalls + 1
            /\ gspans' = s1
            /\ gpc' = "calling"
            /\ UNCHANGED gresp
    /\ UNCHANGED <<greq, svcUrl, bReply>>
    /\ UNCHANGED <<reqs, val, conv, gval, variant, recording, proc, conns, apiKey, ctx, pc, cep, geoReply, geoRes,
                   wxReply, wxRes, calls, resp, spans>>

\* the Orchestrator receives the forwarded GET /temperature?cep=<cleanCEP>
ServeForwarded ==
    /\ gpc = "calling"
    /\ pc = "idle"
    /\ HandlerStartOn(fwdCep)

\* client.Do returns an error: the Orchestrator cannot be reached, or the
\* call is given up while the Orchestrator works
CallFails ==
    /\ gpc = "calling"
    /\ bReply' = [NoBReply EXCEPT !.transport = "error"]
    /\ gresp' = InternalServerError(gresp)
    /\ gspans' = EndBoth(gspans)
    /\ gpc' = "done"
    /\ UNCHANGED <<greq, svcUrl, fwdCep, gcalls>>
    /\ UNCHANGED <<reqs, hdr, val, conv, gval, variant, recording, proc, conns, apiKey, ctx, pc, cep, geoReply, geoRes,
                   wxReply, wxRes, calls, resp, spans>>

\* client.Do returns the Orchestrator's response; io.ReadAll reads its body
\* or fails; the rest of handleCEPRequest
CallReturns ==
    /\ gpc = "calling"
    /\ pc = "done"
    /\ \E read \in {"ok", "error"} :
        /\ bReply' = [transport |-> "ok", status |-> resp.status,
                      body |-> IF read = "ok" THEN resp.body ELSE <<>>, read |-> read]
        /\ gresp' = IF read = "ok" THEN PassThrough(gresp, resp.status, resp.body)
                    ELSE InternalServerError(gresp)
    /\ gspans' = EndBoth(gspans)
    /\ gpc' = "done"
    /\ UNCHANGED <<greq, svcUrl, fwdCep, gcalls>>
    /\ UNCHANGED <<reqs, hdr, val, conv, gval, variant, recording, proc, conns, apiKey, ctx, pc, cep, geoReply, geoRes,
                   wxReply, wxRes, calls, resp, spans>>

(***************************************************************************)
(* main of the gateway: the tracing provider, the listener goroutine, and  *)
(* handleCEPRequest running on one goroutine per connection                 *)
(***************************************************************************)
\* the variables of the single-request views, which the process view leaves alone
requestVars ==
    <<reqs, greq, gpc, fwdCep, gcalls, bReply, gresp, gspans, hdr, val, conv, gval, variant,
      recording, apiKey, ctx, pc, cep, geoReply, geoRes, wxReply, wxRes, calls, resp, spans>>

\* initProvider returns; on an error main calls log.Fatalf
InitProvider ==
    /\ proc.pc = "off"
    /\ \E ok \in BOOLEAN :
         proc' = IF ok THEN [proc EXCEPT !.pc = "serving", !.inits = @ + 1]
                 ELSE [proc EXCEPT !.pc = "exited", !.exit = "init"]
    /\ UNCHANGED <<conns, svcUrl>>
    /\ UNCHANGED requestVars

\* http.ListenAndServe returns an error in its goroutine: log.Fatal, which
\* is os.Exit(1), so the deferred shutdown of main does not run
ListenAndServeFails ==
    /\ proc.pc = "serving"
    /\ proc' = [proc EXCEPT !.pc = "exited", !.exit = "listener"]
    /\ UNCHANGED <<conns, svcUrl>>
    /\ UNCHANGED requestVars

\* the interrupt signal arrives: the select returns, main returns and its
\* deferred function calls shutdown(ctx)
Interrupt ==
    /\ proc.pc = "serving"
    /\ proc' = [proc EXCEPT !.pc = "exited", !.exit = "interrupt", !.shutdowns = @ + 1]
    /\ UNCHANGED <<conns, svcUrl>>
    /\ UNCHANGED requestVars

\* a POST /temperature arrives on connection c
Accept(c) ==
    /\ proc.pc = "serving"
    /\ conns[c].pc = "off"
    /\ \E b \in GatewayBodies :
         conns' = [conns EXCEPT ![c] =
                      [pc |-> "handler", body |-> b,
                       resp |-> SetContentType(NoResponse, "application/json")]]
    /\ UNCHANGED <<proc, svcUrl>>
    /\ UNCHANGED requestVars

\* handleCEPRequest on connection c, up to the dispatch of the forwarded call
HandleCEPRequestOn(c) ==
    /\ proc.pc = "serving"
    /\ conns[c].pc = "handler"
    /\ LET req == DecodeCEPRequest(conns[c].body) IN
       IF ~req.ok \/ ~validateCEP(req.CEP)
       THEN /\ conns' = [conns EXCEPT ![c].pc = "done", ![c].resp = RejectZipcode(@)]
            /\ UNCHANGED proc
       ELSE IF svcUrl = <<>>
       THEN \* log.Fatal: the whole process exits
            /\ conns' = [conns EXCEPT ![c].pc = "fatal"]
            /\ proc' = [proc EXCEPT !.pc = "exited", !.exit = "handler"]
       ELSE IF UrlRejected(svcUrl)
       THEN /\ conns' = [conns EXCEPT ![c].pc = "done",
                                      ![c].resp = InternalServerError(@)]
            /\ UNCHANGED proc
       ELSE /\ conns' = [conns EXCEPT ![c].pc = "calling"]
            /\ UNCHANGED proc
    /\ UNCHANGED svcUrl
    /\ UNCHANGED requestVars

\* client.Do returns on connection c: an error, or the Orchestrator's reply,
\* which is relayed
CallReturnsOn(c) ==
    /\ proc.pc = "serving"
    /\ conns[c].pc = "calling"
    /\ \E st \in {0, 200, 404, 500} :
         conns' = [conns EXCEPT
                      ![c].pc = "done",
                      ![c].resp = IF st = 0 THEN InternalServerError(@)
                                  ELSE PassThrough(@, st, <<TextBody("relayed")>>)]
    /\ UNCHANGED <<proc, svcUrl>>
    /\ UNCHANGED requestVars

GatewayOff ==
    /\ reqs = NoRequests
    /\ greq = NoRequest
    /\ gpc = "off"
    /\ svcUrl = <<>>
    /\ fwdCep = <<>>
    /\ gcalls = 0
    /\ bReply = NoBReply
    /\ gresp = NoResponse
    /\ gspans = [n \in GatewaySpanNames |-> NoSpan]

\* headers a direct client of the Orchestrator may send
InboundHeaders ==
    {NoHeaders, [traceparent |-> [trace |-> "trace of the client", span |-> "client"]]}

Init ==
    /\ val = IdleValidator
    /\ conv = IdleConverter
    /\ gval = IdleGatewayValidator
    /\ variant \in {"traced", "plain"}
    /\ recording \in BOOLEAN
    /\ proc = NoProcess
    /\ conns = NoConns
    /\ apiKey \in ApiKeys
    /\ ctx = LiveContext
    /\ hdr \in InboundHeaders
    /\ GatewayOff
    /\ pc = "idle"
    /\ cep = <<>>
    /\ geoReply = NoReply
    /\ geoRes = NoCity
    /\ wxReply = NoReply
    /\ wxRes = NoTemp
    /\ calls = [geo |-> 0, wx |-> 0]
    /\ resp = NoResponse
    /\ spans = [n \in SpanNames |-> NoSpan]

Next == HandlerStart \/ GeocodeReturn \/ WeatherReturn \/ CancelRequest

Spec == Init /\ [][Next]_vars

\* the gateway in front of the Orchestrator: one client request
InitSystem ==
    /\ val = IdleValidator
    /\ conv = IdleConverter
    /\ gval = IdleGatewayValidator
    /\ variant \in {"traced", "plain"}
    /\ recording = TRUE
    /\ proc = NoProcess
    /\ conns = NoConns
    /\ apiKey \in ApiKeys
    /\ svcUrl \in ServiceBUrls
    /\ ctx = LiveContext
    /\ hdr = NoHeaders
    /\ reqs = NoRequests
    /\ greq = NoRequest
    /\ gpc = "idle"
    /\ fwdCep = <<>>
    /\ gcalls = 0
    /\ bReply = NoBReply
    /\ gresp = NoResponse
    /\ gspans = [n \in GatewaySpanNames |-> NoSpan]
    /\ pc = "idle"
    /\ cep = <<>>
    /\ geoReply = NoReply
    /\ geoRes = NoCity
    /\ wxReply = NoReply
    /\ wxRes = NoTemp
    /\ calls = [geo |-> 0, wx |-> 0]
    /\ resp = NoResponse
    /\ spans = [n \in SpanNames |-> NoSpan]

NextSystem ==
    \/ ServeHTTP
    \/ HandleCEPRequest
    \/ ServeForwarded
    \/ GeocodeReturn
    \/ WeatherReturn
    \/ CancelRequest
    \/ CallFails
    \/ CallReturns

SpecSystem == InitSystem /\ [][NextSystem]_vars

\* the same, with every handler goroutine scheduled and every outbound call
\* returning: a reply or an error of the providers, and the Orchestrator's
\* response to the gateway once it is written
SpecSystemFair ==
    /\ SpecSystem
    /\ WF_vars(HandleCEPRequest)
    /\ WF_vars(ServeForwarded)
    /\ WF_vars(GeocodeReturn)
    /\ WF_vars(WeatherReturn)
    /\ WF_vars(CallReturns)

\* two requests served by one Orchestrator process
InitConcurrent ==
    /\ val = IdleValidator
    /\ conv = IdleConverter
    /\ gval = IdleGatewayValidator
    /\ variant \in {"traced", "plain"}
    /\ recording = TRUE
    /\ proc = NoProcess
    /\ conns = NoConns
    /\ apiKey \in ApiKeys
    /\ reqs = [r \in Reqs |-> IdleRequest]
    /\ ctx = LiveContext
    /\ hdr = NoHeaders
    /\ greq = NoRequest
    /\ gpc = "off"
    /\ svcUrl = <<>>
    /\ fwdCep = <<>>
    /\ gcalls = 0
    /\ bReply = NoBReply
    /\ gresp = NoResponse
    /\ gspans = [n \in GatewaySpanNames |-> NoSpan]
    /\ pc = "off"
    /\ cep = <<>>
    /\ geoReply = NoReply
    /\ geoRes = NoCity
    /\ wxReply = NoReply
    /\ wxRes = NoTemp
    /\ calls = [geo |-> 0, wx |-> 0]
    /\ resp = NoResponse
    /\ spans = [n \in SpanNames |-> NoSpan]

NextConcurrent == \E r \in Reqs : Serve(r) \/ GeocodeReturnOf(r) \/ WeatherReturnOf(r)

SpecConcurrent == InitConcurrent /\ [][NextConcurrent]_vars

(***************************************************************************)
(* IsValidCEP and ConvertTemperatures run on their own                     *)
(***************************************************************************)
HandlerOff ==
    /\ variant = "traced"
    /\ recording = TRUE
    /\ proc = NoProcess
    /\ conns = NoConns
    /\ apiKey = <<>>
    /\ ctx = LiveContext
    /\ hdr = NoHeaders
    /\ GatewayOff
    /\ pc = "off"
    /\ cep = <<>>
    /\ geoReply = NoReply
    /\ geoRes = NoCity
    /\ wxReply = NoReply
    /\ wxRes = NoTemp
    /\ calls = [geo |-> 0, wx |-> 0]
    /\ resp = NoResponse
    /\ spans = [n \in SpanNames |-> NoSpan]

\* the gateway process from its start, with up to two requests in flight
InitProcess ==
    /\ val = IdleValidator
    /\ conv = IdleConverter
    /\ gval = IdleGatewayValidator
    /\ variant = "traced"
    /\ recording = TRUE
    /\ proc = NoProcess
    /\ conns = NoConns
    /\ apiKey = <<>>
    /\ svcUrl \in ServiceBUrls
    /\ ctx = LiveContext
    /\ hdr = NoHeaders
    /\ reqs = NoRequests
    /\ greq = NoRequest
    /\ gpc = "off"
    /\ fwdCep = <<>>
    /\ gcalls = 0
    /\ bReply = NoBReply
    /\ gresp = NoResponse
    /\ gspans = [n \in GatewaySpanNames |-> NoSpan]
    /\ pc = "off"
    /\ cep = <<>>
    /\ geoReply = NoReply
    /\ geoRes = NoCity
    /\ wxReply = NoReply
    /\ wxRes = NoTemp
    /\ calls = [geo |-> 0, wx |-> 0]
    /\ resp = NoResponse
    /\ spans = [n \in SpanNames |-> NoSpan]

NextProcess ==
    \/ InitProvider
    \/ ListenAndServeFails
    \/ Interrupt
    \/ \E c \in Conns : Accept(c)
    \/ \E c \in Conns : HandleCEPRequestOn(c)
    \/ \E c \in Conns : CallReturnsOn(c)

SpecProcess == InitProcess /\ [][NextProcess]_vars

handlerVars == <<reqs, gatewayVars, hdr, variant, recording, proc, conns, apiKey, ctx, pc, cep, geoReply, geoRes, wxReply, wxRes, calls,
                 resp, spans>>

InitValidator ==
    /\ \E n \in 0..MaxCepLen :
        \E base \in [1..n -> DigitSample], p \in 0..n, d \in NonDigit :
            val = [pc |-> "input", cep |-> Candidate(base, p, d), matched |-> FALSE]
    /\ conv = IdleConverter
    /\ gval = IdleGatewayValidator
    /\ HandlerOff

Validate ==
    /\ val.pc = "input"
    /\ val' = [val EXCEPT !.pc = "done", !.matched = IsValidCEP(val.cep)]
    /\ UNCHANGED <<conv, gval, handlerVars>>

NextValidator == Validate

SpecValidator == InitValidator /\ [][NextValidator]_vars

InitConverter ==
    /\ val = IdleValidator
    /\ gval = IdleGatewayValidator
    /\ conv \in {[pc |-> "input", celsius |-> c, temps |-> NoTemps] : c \in CelsiusInputs}
    /\ HandlerOff

Convert ==
    /\ conv.pc = "input"
    /\ conv' = [conv EXCEPT !.pc = "done", !.temps = ConvertTemperatures(conv.celsius)]
    /\ UNCHANGED <<val, gval, handlerVars>>

NextConverter == Convert

\* raw ceps: up to MaxRawLen zeros, up to three of them replaced
InitGatewayValidator ==
    /\ \E n \in 0..MaxRawLen :
        \E p \in 0..n, q \in 0..n, r \in 0..n, d \in RawDefects, e \in RawDefects,
           f \in RawDefects :
            /\ p <= q
            /\ q <= r
            /\ gval = [pc |-> "input",
                       cep |-> Candidate(Candidate(Candidate([i \in 1..n |-> "0"], p, d),
                                                   q, e), r, f),
                       accepted |-> FALSE]
    /\ val = IdleValidator
    /\ conv = IdleConverter
    /\ HandlerOff

ValidateRaw ==
    /\ gval.pc = "input"
    /\ gval' = [gval EXCEPT !.pc = "done", !.accepted = validateCEP(gval.cep)]
    /\ UNCHANGED <<val, conv, handlerVars>>

NextGatewayValidator == ValidateRaw

SpecGatewayValidator == InitGatewayValidator /\ [][NextGatewayValidator]_vars

SpecConverter == InitConverter /\ [][NextConverter]_vars

(***************************************************************************)
(* Properties                                                              *)
(***************************************************************************)
Done == pc = "done"

\* what the claims call a well-formed postal code: exactly 8 ASCII digits
EightAsciiDigits(s) ==
    /\ Len(s) = 8
    /\ \A i \in 1..Len(s) :
         s[i] \in {"0", "1", "2", "3", "4", "5", "6", "7", "8", "9"}

SevenDigits == <<"1", "2", "3", "4", "5", "6", "7">>

\* C1: the status of a handled request is 422 exactly when the cep fails
\* IsValidCEP, 404 exactly when the cep is valid and GetCityFromCEP returned
\* an error, 500 exactly when the geocode succeeded and GetTemperature
\* returned an error, 200 exactly when all three succeeded; no other status
\* is produced, and none before the handler returns.
C1_StatusByStage ==
    /\ ~Done => resp.status = 0
    /\ Done =>
        /\ resp.status \in {422, 404, 500, 200}
        /\ resp.status = 422 <=> ~IsValidCEP(cep)
        /\ resp.status = 404 <=> IsValidCEP(cep) /\ geoRes.err # NoErr
        /\ resp.status = 500 <=>
             IsValidCEP(cep) /\ geoRes.err = NoErr /\ wxRes.err # NoErr
        /\ resp.status = 200 <=>
             IsValidCEP(cep) /\ geoRes.err = NoErr /\ wxRes.err = NoErr

\* C1 witness: a valid cep whose geocode reply could not be decoded is
\* answered 404
C1_Witness ==
    /\ Done
    /\ IsValidCEP(cep)
    /\ geoRes.err.kind = "decode"
    /\ resp.status = 404

\* C2: the geocode call is dispatched only for a valid postal code, the
\* weather call only after the geocode call returned a city, a failed stage
\* is followed by no later stage; 422 goes with no outbound call and 404 with
\* no weather call.
C2_FailFastOrder ==
    /\ calls.geo > 0 => EightAsciiDigits(cep)
    /\ calls.wx > 0 =>
         /\ calls.geo > 0
         /\ geoReply # NoReply
         /\ geoRes.err = NoErr
         /\ geoRes.city # ""
    /\ geoRes.err # NoErr => calls.wx = 0 /\ wxReply = NoReply /\ Done
    /\ wxRes.err # NoErr => Done
    /\ resp.status = 422 => calls.geo = 0 /\ calls.wx = 0 /\ geoReply = NoReply
    /\ resp.status = 404 => calls.wx = 0 /\ wxReply = NoReply

\* C2 witness: the 7-digit postal code 1234567 was answered 422 without any
\* outbound call
C2_Witness ==
    /\ Done
    /\ cep = SevenDigits
    /\ resp.status = 422
    /\ calls = [geo |-> 0, wx |-> 0]

C4_ValidatorExact ==
    val.pc = "done" => (val.matched <=> EightAsciiDigits(val.cep))

\* C4 witness: a string of 8 ASCII digits was accepted
C4_Witness ==
    /\ val.pc = "done"
    /\ val.cep = <<"0", "9", "0", "0", "9", "0", "0", "0">>
    /\ val.matched

\* C5: ConvertTemperatures(c) has TempC = c, TempF = c*1.8+32 and
\* TempK = c+273 for every input, negative and extreme ones included
\* (0 -> 0/32/273, 100 -> 100/212/373, -40 -> -40/-40/233); values in 1/100
\* degree.
C5_ConvertExact ==
    conv.pc = "done" =>
        /\ conv.temps.TempC = conv.celsius
        /\ 10 * (conv.temps.TempF - 3200) = 18 * conv.celsius
        /\ conv.temps.TempK = conv.celsius + 27300
        /\ conv.celsius = 0 =>
             conv.temps.TempF = 3200 /\ conv.temps.TempK = 27300
        /\ conv.celsius = 10000 =>
             conv.temps.TempF = 21200 /\ conv.temps.TempK = 37300
        /\ conv.celsius = 0 - 4000 =>
             conv.temps.TempF = 0 - 4000 /\ conv.temps.TempK = 23300

\* C5 witness: -40 was converted to -40 F and 233 K
C5_Witness ==
    /\ conv.pc = "done"
    /\ conv.celsius = 0 - 4000
    /\ conv.temps.TempF = 0 - 4000
    /\ conv.temps.TempK = 23300

SaysNotFound(reply) ==
    /\ reply.transport = "ok"
    /\ reply.status = 200
    /\ reply.body.kind = "object"
    /\ reply.body.localidade.t \in {"absent", "string"}
    /\ reply.body.erro.t \in {"absent", "bool"}
    /\ \/ reply.body.erro = [t |-> "bool", b |-> TRUE]
       \/ reply.body.localidade \in {[t |-> "absent"], [t |-> "string", s |-> ""]}

\* C7: GetCityFromCEP never returns an empty city with a nil error, and the
\* empty city with every error; a reply with erro=true, with an empty or
\* absent localidade, or with both, yields one and the same not-found error,
\* answered 404 "can not find zipcode".
C7_NoEmptyCity ==
    /\ geoRes.err = NoErr /\ geoReply # NoReply => geoRes.city # ""
    /\ geoRes.err # NoErr => geoRes.city = ""
    /\ SaysNotFound(geoReply) =>
        /\ geoRes.city = ""
        /\ geoRes.err.kind = "notfound"
        /\ geoRes.err.msg =
             (IF variant = "traced" THEN "can not find zipcode" ELSE "zipcode not found")
        /\ resp.status = 404
        /\ resp.body = <<[kind |-> "text", text |-> "can not find zipcode"]>>

\* C7 witness: a reply that only has an empty localidade was answered 404
C7_Witness ==
    /\ Done
    /\ SaysNotFound(geoReply)
    /\ geoReply.body.erro = [t |-> "absent"]
    /\ geoReply.body.localidade = [t |-> "string", s |-> ""]
    /\ resp.status = 404

\* C8: whenever the directory provider answers with a status other than 200
\* the geocode client fails with a provider error, whatever the body holds.
C8_NonOkStatusFails ==
    geoReply.transport = "ok" /\ geoReply.status # 200 =>
        /\ geoRes.err # NoErr
        /\ geoRes.city = ""

\* C9: with APIKeyWeather absent or empty, GetTemperature returns the value 0
\* and an error without dispatching a request, and the handler answers 500
\* "error getting temperature".
C9_NoKeyNoCall ==
    apiKey = <<>> =>
        /\ calls.wx = 0
        /\ wxReply = NoReply
        /\ Done /\ EightAsciiDigits(cep) /\ geoRes.err = NoErr =>
            /\ wxRes.temp = 0
            /\ wxRes.err.kind = "config"
            /\ resp.status = 500
            /\ resp.body = <<[kind |-> "text", text |-> "error getting temperature"]>>

\* C9 witness: the geocode stage found a city and the credential was missing
C9_Witness ==
    /\ apiKey = <<>>
    /\ Done
    /\ geoRes.city = "Rio de Janeiro"
    /\ calls = [geo |-> 1, wx |-> 0]
    /\ resp.status = 500

\* a weather reply that failed in transport, has a status other than 200, or
\* has a body that does not parse (empty, truncated, non-numeric temp_c)
WeatherReplyBad(reply) ==
    \/ reply.transport = "error"
    \/ reply.transport = "ok" /\ reply.status # 200
    \/ /\ reply.transport = "ok"
       /\ \/ reply.body.kind \in {"empty", "malformed"}
          \/ /\ reply.body.kind = "object"
             /\ reply.body.current.t = "object"
             /\ reply.body.current.temp_c.t = "string"

\* C10: GetTemperature returns an error and the value 0 whenever the call
\* failed in transport, the status is not 200 or the body does not parse, and
\* the handler answers 500 "error getting temperature".
C10_WeatherFailure ==
    WeatherReplyBad(wxReply) =>
        /\ wxRes.err # NoErr
        /\ wxRes.temp = 0
        /\ resp.status = 500
        /\ resp.body = <<[kind |-> "text", text |-> "error getting temperature"]>>

\* C10 witness: a 403 reply carrying a well-formed reading was answered 500
C10_Witness ==
    /\ Done
    /\ wxReply.transport = "ok"
    /\ wxReply.status = 403
    /\ wxReply.body.kind = "object"
    /\ wxReply.body.current = [t |-> "object", temp_c |-> [t |-> "number", n |-> 2550]]
    /\ wxRes.err.kind = "status"
    /\ resp.status = 500

\* a weather body that parses as JSON and carries no temp_c: the "current"
\* object is there without the field, or "current" itself is missing
LacksTempC(body) ==
    /\ body.kind = "object"
    /\ \/ body.current.t = "absent"
       \/ body.current.t = "object" /\ body.current.temp_c.t = "absent"

\* C11: a weather reply with status 200 whose body parses but has no temp_c
\* makes GetTemperature return (0, nil), and the handler answers 200 with
\* temp_C 0, temp_F 32 and temp_K 273 for the city the geocode stage resolved.
C11_MissingTempIsZero ==
    (wxReply.transport = "ok" /\ wxReply.status = 200 /\ LacksTempC(wxReply.body)) =>
        /\ wxRes = [temp |-> 0, err |-> NoErr]
        /\ resp.status = 200
        /\ resp.body = <<[kind |-> "json", city |-> geoRes.city,
                          temp_C |-> 0, temp_F |-> 3200, temp_K |-> 27300]>>

\* C11 witness: {"current": {}} with status 200 was answered for Sao Paulo
C11_Witness ==
    /\ Done
    /\ wxReply = Response(200, [kind |-> "object",
                                current |-> [t |-> "object", temp_c |-> JAbsent]])
    /\ geoRes.city = "Sao Paulo"
    /\ resp.status = 200
    /\ resp.body[1].temp_F = 3200

\* C12: a call that is in flight when the request is cancelled returns an
\* error instead of running to completion, and no later outbound call of the
\* request is started.
C12_CancelAborts ==
    /\ (ctx.at = "geocode" /\ geoReply # NoReply) =>
           (geoRes.err # NoErr /\ calls.wx = 0)
    /\ (ctx.at = "weather" /\ wxReply # NoReply) => wxRes.err # NoErr

\* C20: a request makes at most one geocode call and at most one weather
\* call, and a failed call ends the request: no call follows a failure.
C20_SingleAttempt ==
    /\ calls.geo \in {0, 1}
    /\ calls.wx \in {0, 1}
    /\ geoRes.err # NoErr => (Done /\ calls.wx = 0)
    /\ wxRes.err # NoErr => Done

\* C20 witness: the geocode call failed in transport and was the only call
C20_Witness ==
    /\ Done
    /\ geoReply = TransportFailure
    /\ geoRes.err.kind = "transport"
    /\ calls = [geo |-> 1, wx |-> 0]
    /\ resp.status = 404

\* C14 as stated: validateCEP accepts a raw string exactly when IsValidCEP
\* accepts the same string
C14_SameAsValidator ==
    gval.pc = "done" => (gval.accepted <=> IsValidCEP(gval.cep))

\* C14: validateCEP accepts a raw string exactly when, hyphens and spaces
\* apart, it consists of 8 ASCII digits: every character is an ASCII digit, a
\* hyphen or a space, and exactly 8 of them are digits.
C14_EightDigitsBesidesFormatting ==
    gval.pc = "done" =>
        (gval.accepted <=>
            /\ \A i \in 1..Len(gval.cep) : gval.cep[i] \in AsciiDigit \cup {"-", " "}
            /\ Cardinality({i \in 1..Len(gval.cep) : gval.cep[i] \in AsciiDigit}) = 8)

\* C14 witness: "00000-0 00", which IsValidCEP rejects, was accepted
C14_Witness ==
    /\ gval.pc = "done"
    /\ gval.cep = <<"0", "0", "0", "0", "0", "-", "0", " ", "0", "0">>
    /\ gval.accepted
    /\ ~IsValidCEP(gval.cep)

\* handleCEPRequest ran for the gateway's request
Handled == gspans[ValidateSpan].state # "none"

\* a request body the gateway cannot decode into a CEPRequest
Undecodable(body) ==
    \/ body.kind \in {"empty", "malformed"}
    \/ body.kind = "object" /\ body.cep.t \notin {"absent", "null", "string"}

\* the cep a decodable body carries; the empty string when it carries none
DecodedCep(body) ==
    IF body.kind = "object" /\ body.cep.t = "string" THEN body.cep.s ELSE <<>>

\* C13: when the request body is not decodable JSON or the decoded cep fails
\* the gateway's validation, the gateway answers 422 with the body
\* {"message": "invalid zipcode"} and makes no call to the Orchestrator.
C13_RejectsWithoutCall ==
    (Handled /\ (Undecodable(greq.body) \/ ~validateCEP(DecodedCep(greq.body)))) =>
        /\ gpc = "done"
        /\ gresp.status = 422
        /\ gresp.contentType = "application/json"
        /\ gresp.body = <<[kind |-> "json", message |-> "invalid zipcode"]>>
        /\ gcalls = 0
        /\ pc = "idle"
        /\ calls = [geo |-> 0, wx |-> 0]

\* C13 witness: {"cep": "1234567a"} was rejected
C13_Witness ==
    /\ gpc = "done"
    /\ Handled
    /\ greq.body = [kind |-> "object",
                    cep |-> JStr(<<"1", "2", "3", "4", "5", "6", "7", "a">>)]
    /\ gresp.status = 422
    /\ gcalls = 0

\* C15 as stated: a handled request that is answered, and not with 422, is
\* answered with the status and the body the Orchestrator returned
C15_AlwaysPassThrough ==
    (Handled /\ gpc = "done" /\ gresp.status # 422) =>
        /\ bReply.transport = "ok"
        /\ gresp.status = bReply.status
        /\ gresp.body = bReply.body

\* C15: when the Orchestrator's response was received and its body read, the
\* client gets exactly that status and body; every other answer that is not
\* 422 is the gateway's own 500 {"message": "internal server error"}, given
\* when the forwarded request could not be built, the call failed in
\* transport or the body could not be read.
C15_PassThroughOrOwnError ==
    /\ (gpc = "done" /\ bReply.transport = "ok" /\ bReply.read = "ok") =>
           /\ bReply.status = resp.status
           /\ bReply.body = resp.body
           /\ gresp.status = resp.status
           /\ gresp.body = resp.body
    /\ (gpc = "done" /\ Handled /\ gresp.status # 422
          /\ ~(bReply.transport = "ok" /\ bReply.read = "ok")) =>
           /\ gresp.status = 500
           /\ gresp.body = <<[kind |-> "json", message |-> "internal server error"]>>
           /\ \/ UrlRejected(svcUrl)
              \/ bReply.transport = "error"
              \/ bReply.read = "error"

\* C15 witness: the Orchestrator's 500 "error getting temperature" was relayed
C15_Witness ==
    /\ gpc = "done"
    /\ bReply.transport = "ok"
    /\ bReply.read = "ok"
    /\ gresp.status = 500
    /\ gresp.body = <<[kind |-> "text", text |-> "error getting temperature"]>>

\* C16: when the forwarded postal code cannot be resolved to a city, the
\* gateway's client receives 404 with the JSON body
\* {"message": "can not find zipcode"}.
C16_NotFoundMessage ==
    (gpc = "done" /\ bReply.transport = "ok" /\ bReply.read = "ok"
       /\ geoRes.err # NoErr) =>
        /\ gresp.status = 404
        /\ gresp.body = <<[kind |-> "json", message |-> "can not find zipcode"]>>

\* C17: a POST to the path / with body {"cep": "<8 digits>"} is routed to
\* handleCEPRequest.
C17_PostRoot ==
    (gpc = "done" /\ greq.method = "POST" /\ greq.path = "/"
       /\ EightAsciiDigits(DecodedCep(greq.body))) => Handled

AloneAnswer(c, gr, wr) ==
    LET city == GetCityFromCEP(variant, gr)
        temp == GetTemperature(apiKey, wr)
    IN
    IF ~IsValidCEP(c)
    THEN WriteError(NoResponse, 422, "invalid zipcode")
    ELSE IF GeocodeRequestErr(c) # NoErr \/ city.err # NoErr
    THEN WriteError(NoResponse, 404, "can not find zipcode")
    ELSE IF temp.err # NoErr
    THEN WriteError(NoResponse, 500, "error getting temperature")
    ELSE WriteReport(NoResponse,
                     [City |-> city.city, TempC |-> temp.temp,
                      TempF |-> (temp.temp * 18) \div 10 + 3200,
                      TempK |-> temp.temp + 27300])

\* C18: whatever the interleaving of two requests, each is answered with the
\* status and body it would get if served alone with the same postal code and
\* the same provider replies.
C18_AsIfAlone ==
    \A r \in Reqs :
        reqs[r].pc = "done" =>
            reqs[r].resp =
                AloneAnswer(reqs[r].cep,
                            IF reqs[r].geoReply = NoReply THEN TransportFailure
                            ELSE reqs[r].geoReply,
                            IF reqs[r].wxReply = NoReply THEN TransportFailure
                            ELSE reqs[r].wxReply)

\* C18 witness: both requests answered 200, r1 for Sao Paulo at 25.5 C and r2
\* for Rio de Janeiro at -40 C
C18_Witness ==
    /\ reqs["r1"].pc = "done"
    /\ reqs["r2"].pc = "done"
    /\ reqs["r1"].resp.status = 200
    /\ reqs["r2"].resp.status = 200
    /\ reqs["r1"].resp.body[1].city = "Sao Paulo"
    /\ reqs["r1"].resp.body[1].temp_C = 2550
    /\ reqs["r2"].resp.body[1].city = "Rio de Janeiro"
    /\ reqs["r2"].resp.body[1].temp_C = 0 - 4000

\* the handler ran with a tracer that records
Recorded == variant = "traced" /\ recording

\* C21: when the handler has returned, each stage span that was started has
\* status Error exactly when its stage failed and Ok exactly when it
\* succeeded, and the temperature-handler span has Ok exactly when the
\* response is 200 and Error exactly when it is 422, 404 or 500.
C21_SpanLockstep ==
    (Recorded /\ Done) =>
        /\ spans[MainSpan].state = "ended"
        /\ spans[MainSpan].status = "Ok" <=> resp.status = 200
        /\ spans[MainSpan].status = "Error" <=> resp.status \in {422, 404, 500}
        /\ spans[CitySpan].state # "none" <=> resp.status # 422
        /\ spans[CitySpan].state # "none" =>
              /\ spans[CitySpan].status = "Error" <=> geoRes.err # NoErr
              /\ spans[CitySpan].status = "Ok" <=> geoRes.err = NoErr
        /\ spans[TempSpan].state # "none" <=> resp.status \in {500, 200}
        /\ spans[TempSpan].state # "none" =>
              /\ spans[TempSpan].status = "Error" <=> wxRes.err # NoErr
              /\ spans[TempSpan].status = "Ok" <=> wxRes.err = NoErr
        /\ spans[ConvertSpan].state # "none" <=> resp.status = 200
        /\ spans[ConvertSpan].state # "none" => spans[ConvertSpan].status = "Ok"

\* C21 witness: the weather stage failed after the geocode stage succeeded
C21_Witness ==
    /\ Recorded
    /\ Done
    /\ resp.status = 500
    /\ wxReply.transport = "ok"
    /\ spans[CitySpan].status = "Ok"
    /\ spans[TempSpan].status = "Error"
    /\ spans[MainSpan].status = "Error"
    /\ spans[ConvertSpan].state = "none"

\* C22: the response and the clients' results are a function of the postal
\* code and the provider replies alone: they are the same whatever trace
\* header arrived and whether or not the spans record anything.
C22_TracingIsMetadata ==
    /\ Done =>
          resp = AloneAnswer(cep,
                             IF geoReply = NoReply THEN TransportFailure ELSE geoReply,
                             IF wxReply = NoReply THEN TransportFailure ELSE wxReply)
    /\ geoReply # NoReply => geoRes = GetCityFromCEP(variant, geoReply)
    /\ wxReply # NoReply => wxRes = GetTemperature(apiKey, wxReply)

\* C22 witness: a request that carried a trace header was answered 422 by a
\* traced build whose spans record nothing
C22_Witness ==
    /\ Done
    /\ variant = "traced"
    /\ ~recording
    /\ hdr.traceparent.trace = "trace of the client"
    /\ resp.status = 422
    /\ spans[MainSpan].state = "none"

\* C26: with the weather credential missing, a malformed postal code is still
\* answered 422 and a failed geocode stage 404; the missing credential is
\* reported (500) only after the geocode call was made and succeeded.
C26_StageOrder ==
    /\ (Done /\ apiKey = <<>>) =>
          /\ ~IsValidCEP(cep) => resp.status = 422
          /\ (IsValidCEP(cep) /\ geoRes.err # NoErr) => resp.status = 404
          /\ resp.status = 500 =>
                /\ wxRes.err = Err("config", "API key is not set")
                /\ calls.wx = 0
    /\ wxRes.err.kind = "config" =>
          /\ IsValidCEP(cep)
          /\ calls.geo = 1
          /\ geoReply # NoReply
          /\ geoRes.err = NoErr
          /\ resp.status = 500

\* C26 witness: no credential, the geocode call succeeded, the answer is 500
C26_Witness ==
    /\ Done
    /\ apiKey = <<>>
    /\ calls.geo = 1
    /\ geoRes.city = "Sao Paulo"
    /\ wxRes.err.kind = "config"
    /\ resp.status = 500

\* a string without its hyphens and spaces
WithoutFormatting(s) == SelectSeq(s, LAMBDA ch : ch \notin {"-", " "})

\* C24: the cep the gateway puts in the forwarded URL is the decoded input
\* without its hyphens and spaces and is exactly 8 ASCII digits, so the
\* Orchestrator never answers a relayed request with 422.
C24_ForwardedCep ==
    gcalls > 0 =>
        /\ fwdCep = WithoutFormatting(DecodedCep(greq.body))
        /\ EightAsciiDigits(fwdCep)
        /\ pc # "idle" => cep = fwdCep /\ IsValidCEP(cep)
        /\ resp.status # 422
        /\ bReply.status # 422
        /\ (gpc = "done" /\ bReply.transport = "ok" /\ bReply.read = "ok") =>
              gresp.status # 422

\* C24 witness: "01001-000" was relayed as 01001000 and answered 200
C24_Witness ==
    /\ gpc = "done"
    /\ DecodedCep(greq.body) = <<"0", "1", "0", "0", "1", "-", "0", "0", "0">>
    /\ fwdCep = <<"0", "1", "0", "0", "1", "0", "0", "0">>
    /\ pc = "done"
    /\ bReply.read = "ok"
    /\ gresp.status = 200

\* every span of sp that was started is ended, by one call of End
EndedOnce(sp, names) ==
    \A n \in names : sp[n].state # "none" => sp[n].state = "ended" /\ sp[n].ends = 1

\* the Orchestrator's handler returned with each of its spans ended once
\* (holds in every reachable state)
OrchestratorEndedOnce == pc = "done" => EndedOnce(spans, SpanNames)

\* C25: when a handler has returned, every span it started has been ended by
\* exactly one call of End: the four spans of the Orchestrator's handler and
\* validate-cep and call-service-b of the gateway's.
C25_EndedExactlyOnce ==
    /\ OrchestratorEndedOnce
    /\ gpc = "done" => EndedOnce(gspans, GatewaySpanNames)

\* C23: the tracing provider is initialised once, before any request is
\* accepted, and once the process has terminated (by the interrupt signal, a
\* listener failure or a fatal error while serving) its shutdown has run
\* exactly once; it never runs earlier.
C23_InitOnceShutdownOnce ==
    /\ proc.inits <= 1
    /\ proc.shutdowns <= 1
    /\ (\E c \in Conns : conns[c].pc # "off") => proc.inits = 1
    /\ proc.pc = "serving" => proc.inits = 1 /\ proc.shutdowns = 0
    /\ proc.exit \in {"interrupt", "listener", "handler"} => proc.shutdowns = 1

\* C27: a request in flight is never cut off by the handler of another
\* request: no handler terminates the process, whatever the configuration.
C27_NoRequestCutOff ==
    \A c \in Conns :
        conns[c].pc \in {"handler", "calling"} => proc.exit # "handler"

\* C28: provided every outbound call returns, every request the gateway's
\* handler takes up is eventually answered with one response, and every
\* request the Orchestrator takes up eventually ends with one response of
\* status 422, 404, 500 or 200.
C28_EveryRequestAnswered ==
    /\ (gpc = "handler") ~> (gpc = "done" /\ gresp.writeHeaders = 1)
    /\ (pc \in {"geocode", "weather"}) ~>
          (pc = "done" /\ resp.writeHeaders = 1 /\ resp.status \in {422, 404, 500, 200})

====
